---------------------------- MODULE Spec2Model ----------------------------
(***************************************************************************)
(* Model of mcp_cli/async_config.py (load_server_config) and of            *)
(* mcp_cli/chat/commands/provider.py (cmd_provider, cmd_providers,         *)
(* cmd_model).  Each handler is one atomic action; the outcomes of the     *)
(* external collaborators (provider_action_async, ModelManager, the file   *)
(* system and json.load) are inputs drawn from small sets.                 *)
(***************************************************************************)
EXTENDS Integers, Sequences, FiniteSets, TLC

VARIABLES ctx, last, created, cfg

vars == <<ctx, last, created, cfg>>

-----------------------------------------------------------------------------
(* Bounds of the model *)

\* longest token list handed to a handler (command word included)
MaxTokens == 3

\* longest list get_available_models returns
MaxModels == 12

\* largest position a JSON decode error reports
MaxPos == 2

\* longest "args" list of a server entry
MaxArgs == 2

-----------------------------------------------------------------------------
(* Python values *)

\* a key that is not in the dict
Absent == "<absent>"

\* None
PyNone == "None"

\* dict.get(key): None when the key is missing
Get(c, k) == IF c[k] = Absent THEN PyNone ELSE c[k]

\* dict.get(key, default)
GetDefault(c, k, d) == IF c[k] = Absent THEN d ELSE c[k]

\* truth value of a string-or-None
Truthy(v) == v \notin {PyNone, ""}

\* parts[1:]
PyTail(s) == IF Len(s) <= 1 THEN <<>> ELSE SubSeq(s, 2, Len(s))

\* s[:n]
PyHead(s, n) == IF Len(s) <= n THEN s ELSE SubSeq(s, 1, n)

-----------------------------------------------------------------------------
(* The chat context and the inputs of the handlers *)

ProviderVals == {Absent, "openai", "anthropic"}

ModelVals == {Absent, "gpt-x", "claude-3"}

\* the handle a context may hold before any handler ran
PreexistingHandle == <<0>>

\* a ChatContext: provider, model, and model_manager (<<>> when the key is
\* missing, <<h>> when it holds the handle h)
Contexts ==
    [provider : ProviderVals, model : ModelVals,
     model_manager : {<<>>, PreexistingHandle}]

HasKey(c, k) == IF k = "model_manager" THEN Len(c[k]) # 0 ELSE c[k] # Absent

\* positional arguments a command line is built from
ArgPool == <<"anthropic", "gpt-x", "list", "set">>

\* the first n positional arguments (ArgPool repeats when n is larger)
ArgLine(n) == [i \in 1..n |-> ArgPool[((i - 1) % Len(ArgPool)) + 1]]

\* the token lists the dispatcher hands to the handler registered for word:
\* the empty list, and the word followed by up to MaxTokens - 1 arguments
TokenLines(word) ==
    {<<>>} \cup {<<word>> \o ArgLine(n) : n \in 0..(MaxTokens - 1)}

\* no exception
NoExc == "<none>"

\* str(exc) of the exceptions a collaborator raises
ExcTexts == {"connection refused", "no available_models for provider"}

\* "available_models" in str(exc) or "models" in str(exc)
MentionsModels(exc) == exc = "no available_models for provider"

\* what one call of provider_action_async does: the provider and model it
\* leaves in the context, and the exception it raises, if any
DelegateOutcomes ==
    [provider : ProviderVals, model : ModelVals, exc : {NoExc} \cup ExcTexts]

\* await provider_action_async(args, context=c)
CallDelegate(args, c, d) ==
    [ctx |-> [c EXCEPT !.provider = d.provider, !.model = d.model],
     exc |-> d.exc]

\* where the lists of models hold "gpt-x": nowhere (0), or at a and a + 2
HotPlaces == {0, 1, 9, 11}

\* the lists get_available_models returns: n entries, "gpt-x" at a and a + 2
ModelList(n, a) ==
    [i \in 1..n |-> IF a > 0 /\ i \in {a, a + 2} THEN "gpt-x" ELSE "claude-3"]

\* ModelManager().get_available_models(provider): a list, or an exception
ListingOutcomes ==
    {[ok |-> TRUE, models |-> ModelList(n, a), exc |-> NoExc] :
        n \in 0..MaxModels, a \in HotPlaces}
    \cup {[ok |-> FALSE, models |-> <<>>, exc |-> e] : e \in ExcTexts}

\* a line printed on the console
Line(k, a, b, n) == [k |-> k, a |-> a, b |-> b, n |-> n]

\* models[:10]
ModelShowLimit == 10

-----------------------------------------------------------------------------
(* The handlers *)

\* a handler that stores a new ModelManager() whether or not the key is there
EnsureModelManagerAlways(c, mk) ==
    IF mk.ok
    THEN [ok |-> TRUE, made |-> TRUE, ctx |-> [c EXCEPT !.model_manager = <<mk.handle>>]]
    ELSE [ok |-> FALSE, made |-> FALSE, ctx |-> c]

\* if "model_manager" not in ctx: ctx["model_manager"] = ModelManager()
EnsureModelManager(c, mk) ==
    IF HasKey(c, "model_manager")
    THEN [ok |-> TRUE, made |-> FALSE, ctx |-> c]
    ELSE IF mk.ok
         THEN [ok |-> TRUE, made |-> TRUE,
               ctx |-> [c EXCEPT !.model_manager = <<mk.handle>>]]
         ELSE [ok |-> FALSE, made |-> FALSE, ctx |-> c]

NoSnap == [provider |-> PyNone, model |-> PyNone]

\* an exception leaves the handler: nothing was called, nothing printed
Propagated(c) ==
    [ctx |-> c, made |-> FALSE, ret |-> "raised", calls |-> <<>>,
     snap |-> NoSnap, left |-> c, exc |-> NoExc, out |-> <<>>,
     mm |-> "none", models |-> <<>>]

\* feedback on any change, also when no provider is set
ProviderFeedbackAnyChange(old_provider, old_model, new_provider, new_model) ==
    IF new_provider # old_provider \/ new_model # old_model
    THEN <<Line("now-using", new_provider, new_model, 0),
           Line("future-messages", "", "", 0)>>
    ELSE <<>>

\* the feedback after the delegate returned
ProviderFeedback(old_provider, old_model, new_provider, new_model) ==
    IF (new_provider # old_provider \/ new_model # old_model) /\ Truthy(new_provider)
    THEN <<Line("now-using", new_provider, new_model, 0),
           Line("future-messages", "", "", 0)>>
    ELSE <<>>

\* an except clause that reports the failure and raises it again
ProviderExceptReraise(c, exc) ==
    [ret |-> "raised", ctx |-> c, out |-> <<Line("provider-failed", exc, "", 0)>>]

\* the except clause of cmd_provider, and the return after it
ProviderExcept(c, exc) ==
    [ret |-> "true",
     ctx |-> c,
     out |-> <<Line("provider-failed", exc, "", 0)>>
             \o IF MentionsModels(exc)
                THEN <<Line("troubleshooting", "", "", 0),
                       Line("compat-note", "", "", 0),
                       Line("try-provider-list", "", "", 0),
                       Line("current-context", Get(c, "provider"), Get(c, "model"), 0)>>
                ELSE <<>>]

\* cmd_provider(parts, ctx); mk is what ModelManager() does, d what the
\* delegate does
CmdProvider(parts, c, mk, d) ==
    LET e == EnsureModelManager(c, mk) IN
    IF ~e.ok THEN Propagated(c)
    ELSE
      LET old_provider == Get(e.ctx, "provider")
          old_model == Get(e.ctx, "model")
          r == CallDelegate(PyTail(parts), e.ctx, d)
          x == ProviderExcept(r.ctx, r.exc)
      IN [ctx |-> IF r.exc = NoExc THEN r.ctx ELSE x.ctx,
          made |-> e.made,
          ret |-> IF r.exc = NoExc THEN "true" ELSE x.ret,
          calls |-> <<[args |-> PyTail(parts), ctx |-> e.ctx]>>,
          snap |-> [provider |-> old_provider, model |-> old_model],
          left |-> r.ctx,
          exc |-> r.exc,
          out |-> IF r.exc = NoExc
                  THEN ProviderFeedback(old_provider, old_model,
                                        Get(r.ctx, "provider"), Get(r.ctx, "model"))
                  ELSE x.out,
          mm |-> "none", models |-> <<>>]

\* the argument policy of cmd_providers
ProvidersArgs(parts) == IF Len(parts) <= 1 THEN <<"list">> ELSE PyTail(parts)

\* cmd_providers(parts, ctx)
CmdProviders(parts, c, mk, d) ==
    LET e == EnsureModelManager(c, mk) IN
    IF ~e.ok THEN Propagated(c)
    ELSE
      LET args == ProvidersArgs(parts)
          r == CallDelegate(args, e.ctx, d)
      IN [ctx |-> r.ctx, made |-> e.made, ret |-> "true",
          calls |-> <<[args |-> args, ctx |-> e.ctx]>>,
          snap |-> NoSnap, left |-> r.ctx, exc |-> r.exc,
          out |-> IF r.exc = NoExc THEN <<>>
                  ELSE <<Line("providers-failed", r.exc, "", 0)>>,
          mm |-> "none", models |-> <<>>]

\* a listing whose remaining-count line also appears at exactly ten models
ModelListingOffByOne(models, current_provider, current_model) ==
    IF Len(models) = 0 THEN <<>>
    ELSE <<Line("available-models", current_provider, "", 0)>>
         \o [i \in 1..Len(PyHead(models, ModelShowLimit)) |->
               Line("model", IF models[i] = current_model THEN "-> " ELSE "   ",
                    models[i], 0)]
         \o IF Len(models) >= ModelShowLimit
            THEN <<Line("more", "", "", Len(models) - ModelShowLimit)>>
            ELSE <<>>

\* the lines cmd_model prints for a fetched list
ModelListing(models, current_provider, current_model) ==
    IF Len(models) = 0 THEN <<>>
    ELSE <<Line("available-models", current_provider, "", 0)>>
         \o [i \in 1..Len(PyHead(models, ModelShowLimit)) |->
               Line("model", IF models[i] = current_model THEN "-> " ELSE "   ",
                    models[i], 0)]
         \o IF Len(models) > ModelShowLimit
            THEN <<Line("more", "", "", Len(models) - ModelShowLimit)>>
            ELSE <<>>

\* the default of the no-argument branch used in the switch
SwitchProviderUnknown(c) == GetDefault(c, "provider", "unknown")

\* the provider cmd_model switches the model of
SwitchProvider(c) == GetDefault(c, "provider", "openai")

\* cmd_model(parts, ctx); ml is what the fresh ModelManager does
CmdModel(parts, c, ml, d) ==
    IF Len(parts) < 2
    THEN LET current_provider == GetDefault(c, "provider", "unknown")
             current_model == GetDefault(c, "model", "unknown")
         IN [ctx |-> c, made |-> FALSE, ret |-> "true", calls |-> <<>>,
             snap |-> NoSnap, left |-> c, exc |-> ml.exc,
             out |-> <<Line("current-model", current_provider, current_model, 0)>>
                     \o IF ml.ok
                        THEN ModelListing(ml.models, current_provider, current_model)
                        ELSE <<Line("could-not-list", ml.exc, "", 0)>>,
             mm |-> "fresh", models |-> ml.models]
    ELSE LET model_name == parts[2]
             current_provider == SwitchProvider(c)
             r == CallDelegate(<<current_provider, model_name>>, c, d)
         IN [ctx |-> r.ctx, made |-> FALSE, ret |-> "true",
             calls |-> <<[args |-> <<current_provider, model_name>>, ctx |-> c]>>,
             snap |-> NoSnap, left |-> r.ctx, exc |-> r.exc,
             out |-> IF r.exc = NoExc THEN <<>>
                     ELSE <<Line("model-switch-failed", r.exc, "", 0),
                            Line("try-provider", current_provider, model_name, 0)>>,
             mm |-> "none", models |-> <<>>]

-----------------------------------------------------------------------------
(* JSON documents, as json.load returns them *)

JNull == [t |-> "null"]

JBool(b) == [t |-> "bool", b |-> b]

JNum(n) == [t |-> "num", n |-> n]

JStr(x) == [t |-> "str", s |-> x]

JArr(a) == [t |-> "arr", a |-> a]

\* a dict: o is a function from its keys to their values
JObj(o) == [t |-> "obj", o |-> o]

EmptyDict == JObj(<<>>)

IsDict(v) == v.t = "obj"

\* a check for None in place of the truth value
FalsyNoneOnly(v) == v.t = "null"

\* not v
Falsy(v) ==
    \/ v.t = "null"
    \/ v.t = "bool" /\ ~v.b
    \/ v.t = "num" /\ v.n = 0
    \/ v.t = "str" /\ v.s = ""
    \/ v.t = "arr" /\ Len(v.a) = 0
    \/ v.t = "obj" /\ DOMAIN v.o = {}

HasMember(v, k) == IsDict(v) /\ k \in DOMAIN v.o

\* v.get(k, default) of a dict v
DictGet(v, k, default) == IF k \in DOMAIN v.o THEN v.o[k] ELSE default

-----------------------------------------------------------------------------
(* The inputs of load_server_config *)

Paths == {"server_config.json", "/etc/mcp/servers.json"}

ServerNames == {"foo", "bar"}

ArgWords == <<"-y", "server", "--verbose">>

\* the "args" lists of the entries
ArgLists == {JArr([i \in 1..n |-> JStr(ArgWords[((i - 1) % Len(ArgWords)) + 1])]) :
                n \in 0..MaxArgs}

EnvValues == {JNull, JObj([K |-> JStr("V")])}

\* entries that hold "command", with and without "args" and "env"
CommandEntries ==
    {JObj([command |-> JStr("npx")])}
    \cup {JObj([command |-> JStr("npx"), args |-> a]) : a \in ArgLists}
    \cup {JObj([command |-> JStr("uvx"), env |-> e]) : e \in EnvValues}
    \cup {JObj([command |-> JStr("npx"), args |-> a, env |-> e]) :
            a \in ArgLists, e \in EnvValues}

\* entries that are falsy, and truthy entries that hold no "command"
OtherEntries ==
    {JNull, JBool(FALSE), JNum(0), JStr(""), JArr(<<>>), EmptyDict,
     JStr("npx"), JArr(<<JStr("npx")>>), JBool(TRUE),
     JObj([args |-> JArr(<<>>)])}

\* the documents a configuration file may hold
Documents ==
    {JNull, JArr(<<>>), EmptyDict,
     JObj([mcpServers |-> JNull]), JObj([mcpServers |-> JArr(<<>>)]),
     JObj([mcpServers |-> EmptyDict]), JObj([other |-> EmptyDict])}
    \cup {JObj([mcpServers |-> JObj([foo |-> e])]) : e \in CommandEntries \cup OtherEntries}

NoDoc == JNull

\* what open() and json.load() find at the path: no file, a file that cannot
\* be read, bytes that are no text, text that is no JSON (json.load reports
\* msg, doc and pos), or a document
Files ==
    {[kind |-> k, msg |-> "", doc |-> "", pos |-> 0, value |-> NoDoc] :
        k \in {"missing", "denied", "undecodable"}}
    \cup {[kind |-> "badjson", msg |-> "Expecting value", doc |-> d, pos |-> p,
           value |-> NoDoc] : d \in {"{\"mcpServers\": ", "not json"}, p \in 0..MaxPos}
    \cup {[kind |-> "json", msg |-> "", doc |-> "", pos |-> 0, value |-> v] :
            v \in Documents}

\* an exception: its class, its message (a text and what is formatted into
\* it), and the doc and pos of a JSONDecodeError
Exc(type, text, arg, doc, pos) ==
    [type |-> type, text |-> text, arg |-> arg, doc |-> doc, pos |-> pos]

NoException == Exc("none", "", "", "", 0)

\* UnicodeDecodeError and JSONDecodeError are subclasses of ValueError
IsValueError(e) == e.type \in {"ValueError", "JSONDecodeError", "UnicodeDecodeError"}

\* StdioParameters(command=..., args=..., env=...)
StdioParameters(command, args, env) == [command |-> command, args |-> args, env |-> env]

NoParameters == StdioParameters(JNull, JNull, JNull)

\* an event of a run: a log record, or the file being opened
Event(ev, text, arg, data) == [ev |-> ev, text |-> text, arg |-> arg, data |-> data]

LogDebug(text, arg, data) == Event("debug", text, arg, data)

LogError(text, arg) == Event("error", text, arg, NoParameters)

OpenFile(path) == Event("open", "", path, NoParameters)

Raised(events, e) == [events |-> events, raised |-> e, result |-> NoParameters]

Returned(events, result) == [events |-> events, raised |-> NoException, result |-> result]

-----------------------------------------------------------------------------
(* load_server_config *)

\* a construction that applies no default to "args"
BuildParametersNoDefault(events, server_config) ==
    IF ~IsDict(server_config)
    THEN Raised(events, Exc("TypeError", "not subscriptable by str", "", "", 0))
    ELSE IF "command" \notin DOMAIN server_config.o
    THEN Raised(events, Exc("KeyError", "command", "", "", 0))
    ELSE LET result == StdioParameters(server_config.o["command"],
                                       DictGet(server_config, "args", JNull),
                                       DictGet(server_config, "env", JNull))
         IN Returned(Append(events, LogDebug("Loaded config", "", result)), result)

\* server_config["command"], .get("args", []), .get("env") and the rest of
\* the try block, for a truthy server_config
BuildParameters(events, server_config) ==
    IF ~IsDict(server_config)
    THEN Raised(events, Exc("TypeError", "not subscriptable by str", "", "", 0))
    ELSE IF "command" \notin DOMAIN server_config.o
    THEN Raised(events, Exc("KeyError", "command", "", "", 0))
    ELSE LET result == StdioParameters(server_config.o["command"],
                                       DictGet(server_config, "args", JArr(<<>>)),
                                       DictGet(server_config, "env", JNull))
         IN Returned(Append(events, LogDebug("Loaded config", "", result)), result)

\* config.get("mcpServers", {}).get(server_name) and the check of it
LookupServer(events, config, server_name) ==
    IF ~IsDict(config)
    THEN Raised(events, Exc("AttributeError", "no attribute get", "", "", 0))
    ELSE LET servers == DictGet(config, "mcpServers", EmptyDict) IN
         IF ~IsDict(servers)
         THEN Raised(events, Exc("AttributeError", "no attribute get", "", "", 0))
         ELSE LET server_config == DictGet(servers, server_name, JNull) IN
              IF Falsy(server_config)
              THEN Raised(Append(events, LogError("Server not found", server_name)),
                          Exc("ValueError", "Server not found", server_name, "", 0))
              ELSE BuildParameters(events, server_config)

\* the try block
TryBlock(config_path, server_name, file) ==
    LET events == <<LogDebug("Loading config from", config_path, NoParameters),
                    OpenFile(config_path)>>
    IN CASE file.kind = "missing" ->
              Raised(events, Exc("FileNotFoundError", "No such file", config_path, "", 0))
         [] file.kind = "denied" ->
              Raised(events, Exc("PermissionError", "Permission denied", config_path, "", 0))
         [] file.kind = "undecodable" ->
              Raised(events, Exc("UnicodeDecodeError", "invalid start byte", "", "", 0))
         [] file.kind = "badjson" ->
              Raised(events, Exc("JSONDecodeError", file.msg, "", file.doc, file.pos))
         [] OTHER -> LookupServer(events, file.value, server_name)

\* an except clause that raises without logging
OnFileNotFoundSilent(events, e, config_path) ==
    Raised(events,
           Exc("FileNotFoundError", "Configuration file not found", config_path, "", 0))

\* except FileNotFoundError
OnFileNotFound(events, e, config_path) ==
    Raised(Append(events, LogError("Configuration file not found", config_path)),
           Exc("FileNotFoundError", "Configuration file not found", config_path, "", 0))

\* except json.JSONDecodeError as e
OnJSONDecodeError(events, e) ==
    Raised(Append(events, LogError("Invalid JSON in configuration file", e.text)),
           Exc("JSONDecodeError", "Invalid JSON in configuration file", e.text,
               e.doc, e.pos))

\* except ValueError as e
OnValueError(events, e) == Raised(Append(events, LogError(e.text, e.arg)), e)

\* load_server_config(config_path, server_name), file being what is at the path
load_server_config(config_path, server_name, file) ==
    LET t == TryBlock(config_path, server_name, file) IN
    CASE t.raised.type = "FileNotFoundError" -> OnFileNotFound(t.events, t.raised, config_path)
      [] t.raised.type = "JSONDecodeError" -> OnJSONDecodeError(t.events, t.raised)
      [] t.raised.type # "JSONDecodeError" /\ IsValueError(t.raised) ->
            OnValueError(t.events, t.raised)
      [] OTHER -> t

-----------------------------------------------------------------------------
(* The chat session: the dispatcher awaits one handler at a time *)

\* ModelManager(), called when c lacks the key: the handle of the object it
\* returns, or an exception
Constructions(c) ==
    [ok : IF HasKey(c, "model_manager") THEN {TRUE} ELSE BOOLEAN,
     handle : {created + 1}]

NoListing == [ok |-> FALSE, models |-> <<>>, exc |-> NoExc]

NoDelegate == [provider |-> Absent, model |-> Absent, exc |-> NoExc]

Invoke(cmd, parts, r) ==
    /\ ctx' = r.ctx
    /\ created' = created + (IF r.made THEN 1 ELSE 0)
    /\ last' = [cmd |-> cmd, parts |-> parts, pre |-> ctx, r |-> r]
    /\ UNCHANGED cfg

CmdProviderAct ==
    \E parts \in TokenLines("/provider"), mk \in Constructions(ctx), d \in DelegateOutcomes :
        Invoke("provider", parts, CmdProvider(parts, ctx, mk, d))

CmdProvidersAct ==
    \E parts \in TokenLines("/providers"), mk \in Constructions(ctx), d \in DelegateOutcomes :
        Invoke("providers", parts, CmdProviders(parts, ctx, mk, d))

\* the registry is consulted only without an argument, the delegate only
\* with one
CmdModelAct ==
    \E parts \in TokenLines("/model") :
        \E ml \in IF Len(parts) < 2 THEN ListingOutcomes ELSE {NoListing},
           d \in IF Len(parts) < 2 THEN {NoDelegate} ELSE DelegateOutcomes :
            Invoke("model", parts, CmdModel(parts, ctx, ml, d))

\* no load was requested yet
NoConfig ==
    [called |-> FALSE, config_path |-> "", server_name |-> "",
     file |-> [kind |-> "missing", msg |-> "", doc |-> "", pos |-> 0, value |-> NoDoc],
     r |-> Returned(<<>>, NoParameters)]

ChatInit ==
    /\ ctx \in Contexts
    /\ created = 0
    /\ last = [cmd |-> "none", parts |-> <<>>, pre |-> ctx, r |-> Propagated(ctx)]
    /\ cfg = NoConfig

ChatNext == CmdProviderAct \/ CmdProvidersAct \/ CmdModelAct

ChatSpec == ChatInit /\ [][ChatNext]_vars

-----------------------------------------------------------------------------
(* Loads of server configurations *)

LoadServerConfigAct ==
    \E config_path \in Paths, server_name \in ServerNames, file \in Files :
        /\ cfg' = [called |-> TRUE, config_path |-> config_path,
                   server_name |-> server_name, file |-> file,
                   r |-> load_server_config(config_path, server_name, file)]
        /\ UNCHANGED <<ctx, last, created>>

NoContext == [provider |-> Absent, model |-> Absent, model_manager |-> <<>>]

ConfigInit ==
    /\ ctx = NoContext
    /\ created = 0
    /\ last = [cmd |-> "none", parts |-> <<>>, pre |-> ctx, r |-> Propagated(ctx)]
    /\ cfg = NoConfig

ConfigNext == LoadServerConfigAct

ConfigSpec == ConfigInit /\ [][ConfigNext]_vars

-----------------------------------------------------------------------------
(* The whole program *)

Init == ChatInit

Next == ChatNext \/ ConfigNext

Spec == Init /\ [][Next]_vars

-----------------------------------------------------------------------------
(* Properties of the command handlers, checked under ChatSpec *)

\* the lines of kind k among the printed lines
LinesOf(out, k) == SelectSeq(out, LAMBDA l : l.k = k)

\* C1: every invocation of cmd_provider, cmd_providers and cmd_model ends by
\* returning true, whatever provider_action_async and ModelManager do; no
\* exception reaches the dispatcher.
C1_HandlersAlwaysReturnTrue ==
    last.cmd # "none" => last.r.ret = "true"

\* C2: context["model_manager"] is created at most once: a handler stores a
\* handle only when the key is absent, and a handle that is present is the
\* same handle after every later invocation.
C2_ModelManagerCreatedAtMostOnce ==
    [][/\ HasKey(ctx, "model_manager") => ctx'.model_manager = ctx.model_manager
       /\ created' # created => ~HasKey(ctx, "model_manager")
       /\ created' <= 1]_vars

\* a handler created the handle, and a later invocation found and kept it
C2_Witness ==
    /\ created = 1
    /\ last.cmd # "none"
    /\ last.pre.model_manager = <<1>>
    /\ ctx.model_manager = <<1>>

\* C5: every invocation of cmd_providers calls the delegate exactly once,
\* with ["list"] when the token list has 0 or 1 tokens and with tokens[1:]
\* otherwise, passing the context it was given.
C5_ProvidersCallsDelegateOnce ==
    last.cmd = "providers" =>
        /\ Len(last.r.calls) = 1
        /\ last.r.calls[1].args =
              (IF Len(last.parts) <= 1 THEN <<"list">>
               ELSE SubSeq(last.parts, 2, Len(last.parts)))
        /\ last.r.calls[1].ctx.provider = last.pre.provider
        /\ last.r.calls[1].ctx.model = last.pre.model

\* C6: cmd_model with a second token calls the delegate exactly once with
\* [P, tokens[1]], P being the context's provider, or "openai" when the
\* context has none; later tokens are ignored and no ModelManager is used.
C6_ModelSwitchDelegates ==
    (last.cmd = "model" /\ Len(last.parts) >= 2) =>
        /\ Len(last.r.calls) = 1
        /\ last.r.calls[1].args =
              <<IF last.pre.provider = Absent THEN "openai" ELSE last.pre.provider,
                last.parts[2]>>
        /\ last.r.mm = "none"

\* three tokens, no provider in the context: the delegate got ["openai", tokens[1]]
C6_Witness ==
    /\ last.cmd = "model"
    /\ Len(last.parts) = 3
    /\ last.pre.provider = Absent
    /\ Len(last.r.calls) = 1
    /\ last.r.calls[1].args = <<"openai", "anthropic">>

\* C7: when the delegate raises inside cmd_provider, the handler returns true
\* and the context's provider and model are those the delegate left; they are
\* the snapshot's values whenever the delegate did not change them.
C7_ProviderFailureKeepsContext ==
    (last.cmd = "provider" /\ last.r.exc # NoExc) =>
        /\ last.r.ret = "true"
        /\ ctx.provider = last.r.left.provider
        /\ ctx.model = last.r.left.model
        /\ (last.r.left.provider = last.pre.provider
            /\ last.r.left.model = last.pre.model) =>
                /\ Get(ctx, "provider") = last.r.snap.provider
                /\ Get(ctx, "model") = last.r.snap.model

\* the delegate changed the provider and then raised; the handler returned true
C7_Witness ==
    /\ last.cmd = "provider"
    /\ last.r.exc # NoExc
    /\ last.r.left.provider # last.pre.provider
    /\ ctx.provider = last.r.left.provider
    /\ last.r.ret = "true"

\* C9: cmd_provider snapshots provider and model before it calls the delegate
\* with tokens[1:]; after the delegate returns it prints the confirmation,
\* naming the new provider/model pair, exactly when the provider or the model
\* differs from the snapshot and the provider is now set.
C9_ProviderConfirmation ==
    (last.cmd = "provider" /\ Len(last.r.calls) = 1) =>
        /\ last.r.calls[1].args =
              (IF Len(last.parts) <= 1 THEN <<>>
               ELSE SubSeq(last.parts, 2, Len(last.parts)))
        /\ last.r.snap.provider = Get(last.pre, "provider")
        /\ last.r.snap.model = Get(last.pre, "model")
        /\ last.r.exc = NoExc =>
              LET confirmations == LinesOf(last.r.out, "now-using")
                  changed == \/ Get(ctx, "provider") # Get(last.pre, "provider")
                             \/ Get(ctx, "model") # Get(last.pre, "model")
              IN /\ Len(confirmations) = (IF changed /\ Truthy(Get(ctx, "provider"))
                                          THEN 1 ELSE 0)
                 /\ \A i \in DOMAIN confirmations :
                       /\ confirmations[i].a = Get(ctx, "provider")
                       /\ confirmations[i].b = Get(ctx, "model")

\* the delegate switched the provider and returned; the confirmation names it
C9_Witness ==
    /\ last.cmd = "provider"
    /\ last.r.exc = NoExc
    /\ Len(last.r.calls) = 1
    /\ last.pre.provider = "openai"
    /\ ctx.provider = "anthropic"
    /\ Len(LinesOf(last.r.out, "now-using")) = 1

\* C10: cmd_model with only the command word prints, for a fetched list of n
\* models, the first min(n, 10) entries in order, the arrow on exactly the
\* printed entries equal to the current model, and a remaining-count line of
\* n - 10 exactly when n > 10; a failed fetch prints a warning instead; the
\* delegate is not called and the context's model_manager is not touched.
C10_ModelListing ==
    (last.cmd = "model" /\ Len(last.parts) < 2) =>
        LET models == last.r.models
            n == Len(models)
            shown == IF n < 10 THEN n ELSE 10
            current_model == IF last.pre.model = Absent THEN "unknown"
                             ELSE last.pre.model
            lines == LinesOf(last.r.out, "model")
            more == LinesOf(last.r.out, "more")
            warnings == LinesOf(last.r.out, "could-not-list")
        IN /\ last.r.calls = <<>>
           /\ ctx = last.pre
           /\ last.r.mm = "fresh"
           /\ last.r.exc = NoExc =>
                 /\ Len(lines) = shown
                 /\ \A i \in 1..shown :
                       /\ lines[i].b = models[i]
                       /\ (lines[i].a = "-> ") <=> (models[i] = current_model)
                 /\ Len(more) = (IF n > 10 THEN 1 ELSE 0)
                 /\ \A i \in DOMAIN more : more[i].n = n - 10
                 /\ Len(warnings) = 0
           /\ last.r.exc # NoExc =>
                 /\ Len(lines) = 0
                 /\ Len(more) = 0
                 /\ Len(warnings) = 1

\* twelve models, the current one among the ten shown, and "2 more"
C10_Witness ==
    /\ last.cmd = "model"
    /\ Len(last.parts) < 2
    /\ Len(last.r.models) = 12
    /\ \E i \in DOMAIN last.r.out :
          last.r.out[i].k = "model" /\ last.r.out[i].a = "-> "
    /\ \E i \in DOMAIN last.r.out :
          last.r.out[i].k = "more" /\ last.r.out[i].n = 2

-----------------------------------------------------------------------------
(* Properties of load_server_config, checked under ConfigSpec *)

\* the document holds mcpServers[name]
EntryPresent(v, name) ==
    /\ v.t = "obj"
    /\ "mcpServers" \in DOMAIN v.o
    /\ v.o["mcpServers"].t = "obj"
    /\ name \in DOMAIN v.o["mcpServers"].o

EntryOf(v, name) == v.o["mcpServers"].o[name]

\* the values Python takes for false
FalsyValues == {JNull, JBool(FALSE), JNum(0), JStr(""), JArr(<<>>), EmptyDict}

\* mcpServers[name] is absent or falsy
EntryAbsentOrFalsy(v, name) ==
    ~EntryPresent(v, name) \/ EntryOf(v, name) \in FalsyValues

\* the document is an object whose mcpServers member, if any, is an object
LookupDefined(v) ==
    /\ v.t = "obj"
    /\ "mcpServers" \in DOMAIN v.o => v.o["mcpServers"].t = "obj"

\* C3 as stated: a missing path fails with FileNotFoundError; a file whose
\* text is not valid JSON fails with a JSONDecodeError holding the original
\* doc and pos; valid JSON in which mcpServers[server_name] is absent or falsy fails
\* with a ValueError naming server_name; nothing is returned in these cases.
C3_FailuresClassifiedByInput ==
    cfg.called =>
        LET f == cfg.file
            e == cfg.r.raised
        IN /\ f.kind = "missing" => e.type = "FileNotFoundError"
           /\ f.kind = "badjson" =>
                 e.type = "JSONDecodeError" /\ e.doc = f.doc /\ e.pos = f.pos
           /\ (f.kind = "json" /\ EntryAbsentOrFalsy(f.value, cfg.server_name)) =>
                 e.type = "ValueError" /\ e.arg = cfg.server_name
           /\ (\/ f.kind \in {"missing", "badjson"}
               \/ f.kind = "json" /\ EntryAbsentOrFalsy(f.value, cfg.server_name)) =>
                 e.type # "none" /\ cfg.r.result = NoParameters

\* C3 as amended: the ValueError case is that of a JSON object whose
\* mcpServers member is missing or is itself an object; the other cases are
\* as stated.
C3_FailuresClassifiedForObjects ==
    cfg.called =>
        LET f == cfg.file
            e == cfg.r.raised
        IN /\ f.kind = "missing" => e.type = "FileNotFoundError"
           /\ f.kind = "badjson" =>
                 e.type = "JSONDecodeError" /\ e.doc = f.doc /\ e.pos = f.pos
           /\ (f.kind = "json" /\ LookupDefined(f.value)
               /\ EntryAbsentOrFalsy(f.value, cfg.server_name)) =>
                 e.type = "ValueError" /\ e.arg = cfg.server_name
           /\ (\/ f.kind \in {"missing", "badjson"}
               \/ f.kind = "json" /\ EntryAbsentOrFalsy(f.value, cfg.server_name)) =>
                 e.type # "none" /\ cfg.r.result = NoParameters

\* the entry is there and is {}: the load failed with a ValueError naming it
C3_Witness ==
    /\ cfg.called
    /\ cfg.file.kind = "json"
    /\ EntryPresent(cfg.file.value, cfg.server_name)
    /\ EntryOf(cfg.file.value, cfg.server_name) = EmptyDict
    /\ cfg.r.raised.type = "ValueError"
    /\ cfg.r.raised.arg = cfg.server_name

\* C4: when mcpServers[server_name] is a non-empty object holding "command",
\* the load returns a record with that command, the entry's args (the empty
\* list when omitted) and the entry's env (None when omitted).
C4_ParametersFromEntry ==
    (/\ cfg.called
     /\ cfg.file.kind = "json"
     /\ EntryPresent(cfg.file.value, cfg.server_name)
     /\ EntryOf(cfg.file.value, cfg.server_name).t = "obj"
     /\ "command" \in DOMAIN EntryOf(cfg.file.value, cfg.server_name).o) =>
        LET entry == EntryOf(cfg.file.value, cfg.server_name).o
        IN /\ cfg.r.raised.type = "none"
           /\ cfg.r.result.command = entry["command"]
           /\ cfg.r.result.args =
                 (IF "args" \in DOMAIN entry THEN entry["args"] ELSE JArr(<<>>))
           /\ cfg.r.result.env =
                 (IF "env" \in DOMAIN entry THEN entry["env"] ELSE JNull)

\* an entry with only "command": the record has args [] and no env
C4_Witness ==
    /\ cfg.called
    /\ cfg.file.kind = "json"
    /\ EntryPresent(cfg.file.value, cfg.server_name)
    /\ EntryOf(cfg.file.value, cfg.server_name) = JObj([command |-> JStr("npx")])
    /\ cfg.r.raised.type = "none"
    /\ cfg.r.result = [command |-> JStr("npx"), args |-> JArr(<<>>), env |-> JNull]

\* C8: in every run the debug record naming the path precedes the opening of
\* the file; a successful run ends with the debug record of the resolved
\* parameters and logs no error; a run that fails with one of the three
\* error kinds logs at least one error before the error leaves, and no failed
\* run logs the second debug record.
C8_LogOrder ==
    cfg.called =>
        LET ev == cfg.r.events
            e == cfg.r.raised
            IsLoading(x) == /\ x.ev = "debug"
                            /\ x.text = "Loading config from"
                            /\ x.arg = cfg.config_path
            IsLoaded(x) == x.ev = "debug" /\ x.text = "Loaded config"
        IN /\ \E i \in DOMAIN ev :
                 /\ IsLoading(ev[i])
                 /\ \A j \in DOMAIN ev : ev[j].ev = "open" => i < j
           /\ \E j \in DOMAIN ev : ev[j].ev = "open"
           /\ e.type = "none" =>
                 /\ IsLoaded(ev[Len(ev)])
                 /\ ev[Len(ev)].data = cfg.r.result
                 /\ \A j \in DOMAIN ev : ev[j].ev # "error"
           /\ e.type \in {"FileNotFoundError", "JSONDecodeError", "ValueError"} =>
                 \E j \in DOMAIN ev : ev[j].ev = "error"
           /\ e.type # "none" => \A j \in DOMAIN ev : ~IsLoaded(ev[j])

\* a load of a missing file: the path was logged, then the error
C8_Witness ==
    /\ cfg.called
    /\ cfg.file.kind = "missing"
    /\ cfg.r.raised.type = "FileNotFoundError"
    /\ Len(cfg.r.events) = 3
    /\ cfg.r.events[1].ev = "debug"
    /\ cfg.r.events[3].ev = "error"

=============================================================================
